---- MODULE Spec2Model ----
(***************************************************************************)
(* Model of the streaming response coordinator of MAGI's llm_menu.py:      *)
(* MainWindow.on_send, MainWindow.send_to_ollama (one background thread    *)
(* per submit), the closures it hands to GLib.idle_add, add_message,       *)
(* save_history, load_history, MessageBox.on_delete_clicked and             *)
(* MAGIApplication.do_activate.                                            *)
(*                                                                         *)
(* A text is a sequence of one-character strings.  A MessageBox in         *)
(* messages_box is a record [text, is_user, is_code, live]: live = s marks *)
(* the live_box widget created by session s, live = 0 any other widget.    *)
(***************************************************************************)
EXTENDS Naturals, Sequences, FiniteSets

VARIABLES
    messages_box,   \* children of self.messages_box, in order
    file,           \* /tmp/MAGI/chat_history.json
    idle,           \* GLib main-context queue of idle closures (FIFO)
    nsess,          \* number of threads started by on_send so far
    pc,             \* pc[s]: position of the thread running send_to_ollama
    prompt,         \* prompt[s]: the argument of send_to_ollama
    full_response,  \* full_response[s]: the local the closures capture
    live_label,     \* live_label[s]: the text of live_box.label
    nread,          \* lines taken from iter_lines() so far, all streams
    ndel,           \* delete buttons clicked so far
    response,       \* response[s]: status_code of the response, 0 before it
    exc,            \* exc[s]: the exception caught at line 319, or "none"
    events,         \* events[s]: what the presentation thread has run for s
    raised,         \* exception that escaped the last do_activate or handler
    nwin            \* windows built so far, one per start of the application

vars == <<messages_box, file, idle, nsess, pc, prompt, full_response,
          live_label, nread, ndel, response, exc, events, raised, nwin>>

----------------------------------------------------------------------------
(* Bounds *)

MaxSessions == 2
MaxTurns == 1
MaxLines == 2
MaxDeletes == 1
MaxTokens == 5
MaxWindows == 2
MaxBoxes == 2

Sessions == 1..MaxSessions

\* the history file: absent, or holding the JSON text json.dump wrote as
\* the list of its objects; truncated when a write stopped before its end
NoFile == [exists |-> FALSE, truncated |-> FALSE, history |-> <<>>]

----------------------------------------------------------------------------
(* Texts *)

Whitespace == {" ", "\n"}

\* The grave accent (U+0060) cannot be written in a TLA+ string: "^" stands
\* for it in every text of the model.
Backtick == "^"

Fence == <<Backtick, Backtick, Backtick>>

Placeholder == <<".", ".", ".">>

RECURSIVE lstrip(_)
lstrip(t) ==
    IF t # <<>> /\ Head(t) \in Whitespace THEN lstrip(Tail(t)) ELSE t

RECURSIVE rstrip(_)
rstrip(t) ==
    IF t # <<>> /\ t[Len(t)] \in Whitespace
    THEN rstrip(SubSeq(t, 1, Len(t) - 1))
    ELSE t

\* mutant of strip: only the leading whitespace is removed
strip_leading_only(t) == lstrip(t)

\* str.strip()
strip(t) == lstrip(rstrip(t))

StartsWithFence(t) == Len(t) >= 3 /\ SubSeq(t, 1, 3) = Fence

\* str.split(Fence): left to right, non-overlapping; cur is the piece so far
RECURSIVE split_from(_, _)
split_from(t, cur) ==
    IF t = <<>> THEN <<cur>>
    ELSE IF StartsWithFence(t)
         THEN <<cur>> \o split_from(SubSeq(t, 4, Len(t)), <<>>)
         ELSE split_from(Tail(t), Append(cur, Head(t)))

split(t) == split_from(t, <<>>)

----------------------------------------------------------------------------
(* Widgets and the history file *)

\* GLib.markup_escape_text (line 36)
markup_escape(c) ==
    CASE c = "&" -> <<"&", "a", "m", "p", ";">>
      [] c = "<" -> <<"&", "l", "t", ";">>
      [] c = ">" -> <<"&", "g", "t", ";">>
      [] c = "\"" -> <<"&", "q", "u", "o", "t", ";">>
      [] c = "'" -> <<"&", "#", "3", "9", ";">>
      [] OTHER -> <<c>>

RECURSIVE markup_escape_text(_)
markup_escape_text(t) ==
    IF t = <<>> THEN <<>> ELSE markup_escape(Head(t)) \o markup_escape_text(Tail(t))

\* the character an entity of the markup stands for
markup_entity(name) ==
    CASE name = <<"a", "m", "p">> -> "&"
      [] name = <<"l", "t">> -> "<"
      [] name = <<"g", "t">> -> ">"
      [] name = <<"q", "u", "o", "t">> -> "\""
      [] OTHER -> "'"

\* the text of escaped markup, as Gtk.Label.get_text gives it
RECURSIVE markup_text(_)
markup_text(m) ==
    IF m = <<>> THEN <<>>
    ELSE IF Head(m) = "&"
         THEN LET k == CHOOSE i \in 2..Len(m) :
                         m[i] = ";" /\ \A j \in 2..(i - 1) : m[j] # ";"
              IN  <<markup_entity(SubSeq(m, 2, k - 1))>>
                  \o markup_text(SubSeq(m, k + 1, Len(m)))
         ELSE <<Head(m)>> \o markup_text(Tail(m))

\* self.label of a new MessageBox, read back with get_text: Gtk.Label(
\* label=text) shows the text as it is, the label of a code block is set
\* from markup (lines 29 and 35-36)
label_text(text, is_code) ==
    IF is_code THEN markup_text(markup_escape_text(text)) ELSE text

\* MessageBox.__init__: a finished message widget
MessageBox(text, is_user, is_code) ==
    [text |-> label_text(text, is_code), is_user |-> is_user,
     is_code |-> is_code, live |-> 0]

\* live_box = MessageBox("...", False, self)
live_box(s) ==
    [text |-> Placeholder, is_user |-> FALSE, is_code |-> FALSE, live |-> s]

\* mutant of create_boxes: is_code toggled after every part, blank or not
RECURSIVE create_boxes_toggle_every_part(_, _)
create_boxes_toggle_every_part(parts, is_code) ==
    IF parts = <<>> THEN <<>>
    ELSE IF strip(Head(parts)) # <<>>
         THEN <<MessageBox(strip(Head(parts)), FALSE, is_code)>>
              \o create_boxes_toggle_every_part(Tail(parts), ~is_code)
         ELSE create_boxes_toggle_every_part(Tail(parts), ~is_code)

\* the loop of split_and_create_boxes: one box per part that is not blank,
\* is_code toggled after each box created
RECURSIVE create_boxes(_, _)
create_boxes(parts, is_code) ==
    IF parts = <<>> THEN <<>>
    ELSE IF strip(Head(parts)) # <<>>
         THEN <<MessageBox(strip(Head(parts)), FALSE, is_code)>>
              \o create_boxes(Tail(parts), ~is_code)
         ELSE create_boxes(Tail(parts), is_code)

\* mutant of remove_live: the live box is left in the container
keep_live(mb, s) == mb

\* self.messages_box.remove(live_box); a widget that is no child is left alone
remove_live(mb, s) == SelectSeq(mb, LAMBDA m : m.live # s)

\* parent.remove(self) for the i-th child
remove_at(mb, i) == SubSeq(mb, 1, i - 1) \o SubSeq(mb, i + 1, Len(mb))

\* live_box.label.set_text(t)
\* mutant of set_text: the label of every live box is set
set_text_every_live(mb, s, t) ==
    [i \in 1..Len(mb) |->
        IF mb[i].live # 0 THEN [mb[i] EXCEPT !.text = t] ELSE mb[i]]

\* live_box.label.set_text(t): live_box is the local of the call of session s
set_text(mb, s, t) ==
    [i \in 1..Len(mb) |->
        IF mb[i].live = s THEN [mb[i] EXCEPT !.text = t] ELSE mb[i]]

\* save_history: every child of messages_box, the whole file rewritten
history_of(mb) ==
    [i \in 1..Len(mb) |->
        [text |-> mb[i].text, is_user |-> mb[i].is_user,
         is_code |-> mb[i].is_code]]

\* mutant of json_escape: the backslash is written as it is
json_escape_quote_only(c) ==
    CASE c = "\"" -> <<"\\", "\"">>
      [] c = "\n" -> <<"\\", "n">>
      [] OTHER -> <<c>>

\* json.dump of a str: quoted, with the quote, the backslash and the line
\* feed escaped
json_escape(c) ==
    CASE c = "\"" -> <<"\\", "\"">>
      [] c = "\\" -> <<"\\", "\\">>
      [] c = "\n" -> <<"\\", "n">>
      [] OTHER -> <<c>>

RECURSIVE json_escape_all(_)
json_escape_all(t) ==
    IF t = <<>> THEN <<>> ELSE json_escape(Head(t)) \o json_escape_all(Tail(t))

json_string(t) == <<"\"">> \o json_escape_all(t) \o <<"\"">>

json_bool(b) == IF b THEN "true" ELSE "false"

\* json.dump(history, f): the objects of the list as JSON text
json_dump(history) ==
    [i \in 1..Len(history) |->
        [text |-> json_string(history[i].text),
         is_user |-> json_bool(history[i].is_user),
         is_code |-> json_bool(history[i].is_code)]]

\* json.load of a string: the quotes dropped, the escapes resolved
RECURSIVE json_unescape_all(_)
json_unescape_all(t) ==
    IF t = <<>> THEN <<>>
    ELSE IF Head(t) = "\\" /\ Len(t) >= 2
         THEN <<IF t[2] = "n" THEN "\n" ELSE t[2]>>
              \o json_unescape_all(SubSeq(t, 3, Len(t)))
         ELSE <<Head(t)>> \o json_unescape_all(Tail(t))

json_parse_string(js) == json_unescape_all(SubSeq(js, 2, Len(js) - 1))

\* json.load(f): the list of dicts of a file that parses
json_load(content) ==
    [i \in 1..Len(content) |->
        [text |-> json_parse_string(content[i].text),
         is_user |-> content[i].is_user = "true",
         is_code |-> content[i].is_code = "true"]]

save_history(mb) ==
    [exists |-> TRUE, truncated |-> FALSE, history |-> json_dump(history_of(mb))]

\* lines 347-350 when the storage refuses the write: os.makedirs or open
\* raised and the file is as it was, or open emptied the file and json.dump
\* raised after the first k objects
failed_writes(f, mb) ==
    {f} \cup {[exists |-> TRUE, truncated |-> TRUE,
               history |-> SubSeq(json_dump(history_of(mb)), 1, k)] :
                 k \in 0..(Len(mb) - 1)}

\* lines 326-333: one MessageBox for each dict of the list
loaded_boxes(history) ==
    [i \in 1..Len(history) |->
        MessageBox(history[i].text, history[i].is_user, history[i].is_code)]

\* load_history: the exception that leaves it.  FileNotFoundError is caught
\* (line 335); json.load of a file cut short raises json.JSONDecodeError.
load_history_raises(f) ==
    IF f.exists /\ f.truncated THEN "JSONDecodeError" ELSE "none"

\* mutant of load_history_box: the objects read before the error are appended
load_history_box_partial(mb, f) ==
    IF f.exists THEN mb \o loaded_boxes(json_load(f.history)) ELSE mb

\* load_history: the log after it.  json.load reads the whole file before
\* the first append (line 325).
load_history_box(mb, f) ==
    IF f.exists /\ ~f.truncated
    THEN mb \o loaded_boxes(json_load(f.history))
    ELSE mb

\* mutant of idle_add: the newest closure runs first
idle_add_front(q, closure) == <<closure>> \o q

\* GLib.idle_add: sources of one priority run in the order they were added
idle_add(q, closure) == Append(q, closure)

Closure(fn, s) == [fn |-> fn, s |-> s]

----------------------------------------------------------------------------
(* Inputs *)

\* what the user typed into self.entry
EntryTexts == {<<" ">>, <<" ", "h">>}

\* the 'response' texts of the streamed chunks
ChunkTexts == {<<" ">>, <<"a">> \o Fence}

\* One line of response.iter_lines(), by what json.loads makes of it:
\*   blank           b''              (skipped by "if line")
\*   invalid         not JSON         (json.JSONDecodeError)
\*   number          a JSON number    ('response' in chunk raises TypeError)
\*   array           a JSON array without the string "response"
\*   object_without  a JSON object without the key 'response'
\*   object_null     a JSON object whose 'response' is null
\*   object          a JSON object whose 'response' is the text resp
Lines ==
    {[kind |-> k, resp |-> <<>>] :
        k \in {"blank", "invalid", "number", "array", "object_without",
               "object_null"}}
    \cup {[kind |-> "object", resp |-> r] : r \in ChunkTexts}

\* lines 283-296 for one line: "append", "skip" or the exception raised
line_outcome(line) ==
    CASE line.kind = "blank" -> "skip"
      [] line.kind = "invalid" -> "skip"
      [] line.kind = "number" -> "TypeError"
      [] line.kind = "array" -> "skip"
      [] line.kind = "object_without" -> "skip"
      [] line.kind = "object_null" -> "TypeError"
      [] OTHER -> "append"

\* response.ok: raise_for_status raises for the statuses 400 to 599 only
ok(status) == ~(400 <= status /\ status < 600)

StatusCodes == {200, 500}

\* with an answer that is neither a success nor an error of the client or
\* the server
AnyStatusCodes == StatusCodes \cup {300}

RECURSIVE str_int(_)
str_int(n) ==
    IF n < 10
    THEN <<CASE n = 0 -> "0" [] n = 1 -> "1" [] n = 2 -> "2" [] n = 3 -> "3"
             [] n = 4 -> "4" [] n = 5 -> "5" [] n = 6 -> "6" [] n = 7 -> "7"
             [] n = 8 -> "8" [] OTHER -> "9">>
    ELSE str_int(n \div 10) \o str_int(n % 10)

ErrorPrefix == <<"E", "r", "r", "o", "r", ":", " ">>

\* f"Error: HTTP {response.status_code}"
error_http_text(status) == ErrorPrefix \o <<"H", "T", "T", "P", " ">> \o str_int(status)

\* str(e), one character standing for the library's message
str_exc(e) == IF e = "ConnectionError" THEN <<"c">> ELSE <<"t">>

\* f"Error: {str(e)}"
error_exc_text(e) == ErrorPrefix \o str_exc(e)

----------------------------------------------------------------------------
(* Initial state: the window built, load_history found no file *)

Init ==
    /\ messages_box = <<>>
    /\ file = NoFile
    /\ idle = <<>>
    /\ nsess = 0
    /\ pc = [s \in Sessions |-> "new"]
    /\ prompt = [s \in Sessions |-> <<>>]
    /\ full_response = [s \in Sessions |-> <<>>]
    /\ live_label = [s \in Sessions |-> <<>>]
    /\ nread = 0
    /\ ndel = 0
    /\ response = [s \in Sessions |-> 0]
    /\ exc = [s \in Sessions |-> "none"]
    /\ events = [s \in Sessions |-> <<>>]
    /\ raised = "none"
    /\ nwin = 1

----------------------------------------------------------------------------
(* The race on messages_box.  A thread appends its live box without the     *)
(* main loop (line 271), so the append can fall between two statements of   *)
(* a handler that is running.  A handler that appends boxes and then saves  *)
(* is modelled as one step together with the live boxes that land inside    *)
(* it; a live box that lands before or after the handler is a step of       *)
(* create_live_box.  (Inside on_delete_clicked the append leaves the same   *)
(* log and file as create_live_box followed by on_delete_clicked.)          *)

\* the threads started whose live box is not appended yet
racers == {s \in Sessions : pc[s] = "live"}

\* the interleavings of two sequences
RECURSIVE Merges(_, _)
Merges(a, b) ==
    IF a = <<>> THEN {b}
    ELSE IF b = <<>> THEN {a}
    ELSE {<<Head(a)>> \o m : m \in Merges(Tail(a), b)}
         \cup {<<Head(b)>> \o m : m \in Merges(a, Tail(b))}

\* the orders in which the threads of R append their live boxes
Orders(R) ==
    {q \in [1..Cardinality(R) -> R] :
        \A i, j \in 1..Cardinality(R) : q[i] = q[j] => i = j}

\* what the handler's appends and the live boxes of R leave at the end of
\* the log; the first append of the handler comes first
raced_appends(added, R) ==
    IF added = <<>> \/ R = {}
    THEN {added}
    ELSE UNION {{<<Head(added)>> \o m :
                    m \in Merges(Tail(added), [i \in 1..Len(q) |-> live_box(q[i])])} :
                q \in Orders(R)}

\* lines 270-274 done by the threads of R
live_created(R) == [s \in Sessions |-> IF s \in R THEN "post" ELSE pc[s]]

live_labelled(R) ==
    [s \in Sessions |-> IF s \in R THEN Placeholder ELSE live_label[s]]

----------------------------------------------------------------------------
(* Presentation thread: signal handlers *)

\* add_message(text, is_user): the log and the file after it
add_message_box(mb, text, is_user) == Append(mb, MessageBox(text, is_user, FALSE))

add_message_file(mb, f, text, is_user) ==
    IF is_user THEN save_history(add_message_box(mb, text, is_user)) ELSE f

\* the window was built: load_history did not fail in setup_window
window_built == raised # "JSONDecodeError"

\* on_send: the entry holds t; a blank entry does nothing.  cap bounds the
\* number of submits of a run.  R: the threads whose live box is appended
\* between the append and the save_history of add_message.
on_send(t, cap) ==
    /\ window_built
    /\ nsess < cap
    /\ IF strip(t) # <<>>
       THEN \E R \in SUBSET racers :
              \E tail \in raced_appends(<<MessageBox(strip(t), TRUE, FALSE)>>, R) :
                /\ messages_box' = messages_box \o tail
                /\ file' = IF R = {}
                           THEN add_message_file(messages_box, file, strip(t), TRUE)
                           ELSE save_history(messages_box \o tail)
                /\ nsess' = nsess + 1
                /\ pc' = [live_created(R) EXCEPT ![nsess + 1] = "live"]
                /\ live_label' = live_labelled(R)
                /\ prompt' = [prompt EXCEPT ![nsess + 1] = strip(t)]
                /\ raised' = "none"
                /\ UNCHANGED <<idle, full_response, nread, ndel, response, exc,
                               events, nwin>>
       ELSE /\ raised' = "none"
            /\ UNCHANGED <<messages_box, file, idle, nsess, pc, prompt,
                           full_response, live_label, nread, ndel, response,
                           exc, events, nwin>>

\* MessageBox.on_delete_clicked of the i-th child (code boxes have no button)
on_delete_clicked(i) ==
    /\ ndel < MaxDeletes
    /\ i \in 1..Len(messages_box)
    /\ ~messages_box[i].is_code
    /\ ndel' = ndel + 1
    /\ messages_box' = remove_at(messages_box, i)
    /\ file' = save_history(remove_at(messages_box, i))
    /\ raised' = "none"
    /\ UNCHANGED <<idle, nsess, pc, prompt, full_response, live_label, nread,
                   response, exc, events, nwin>>

\* mutant of on_delete_raises: a box that is not in the log is an error
on_delete_raises_out_of_range(mb, s) ==
    IF \E i \in DOMAIN mb : mb[i].live = s THEN "none" ELSE "OutOfRange"

\* lines 107-112 raise nothing: get_parent() of a box that is not in the
\* log is None and the body of "if parent" is skipped
on_delete_raises(mb, s) == "none"

\* on_delete_clicked of the live box of session s when it is no longer a
\* child of messages_box
on_delete_clicked_detached(s) ==
    /\ ndel < MaxDeletes
    /\ pc[s] \notin {"new", "live"}
    /\ \A i \in DOMAIN messages_box : messages_box[i].live # s
    /\ ndel' = ndel + 1
    /\ raised' = on_delete_raises(messages_box, s)
    /\ UNCHANGED <<messages_box, file, idle, nsess, pc, prompt,
                   full_response, live_label, nread, response, exc, events,
                   nwin>>

\* on_send when save_history raises OSError in add_message (line 258): the
\* box is appended, the exception leaves on_send before the entry is
\* cleared and before the thread is started (lines 264-265)
on_send_write_fails(t) ==
    /\ window_built
    /\ strip(t) # <<>>
    /\ Len(messages_box) < MaxBoxes
    /\ messages_box' = add_message_box(messages_box, strip(t), TRUE)
    /\ file' \in failed_writes(file, add_message_box(messages_box, strip(t), TRUE))
    /\ raised' = "OSError"
    /\ UNCHANGED <<idle, nsess, pc, prompt, full_response, live_label, nread,
                   ndel, response, exc, events, nwin>>

\* MAGIApplication.do_activate in the next run of the program: a new
\* MainWindow, whose setup_window calls load_history on an empty
\* messages_box (lines 183 and 216); the threads and idle closures of the
\* run before are gone, the file stays
do_activate ==
    /\ nwin < MaxWindows
    /\ nwin' = nwin + 1
    /\ messages_box' = load_history_box(<<>>, file)
    /\ raised' = load_history_raises(file)
    /\ idle' = <<>>
    /\ nsess' = 0
    /\ pc' = [s \in Sessions |-> "new"]
    /\ prompt' = [s \in Sessions |-> <<>>]
    /\ full_response' = [s \in Sessions |-> <<>>]
    /\ live_label' = [s \in Sessions |-> <<>>]
    /\ response' = [s \in Sessions |-> 0]
    /\ exc' = [s \in Sessions |-> "none"]
    /\ events' = [s \in Sessions |-> <<>>]
    /\ UNCHANGED <<file, nread, ndel>>

----------------------------------------------------------------------------
(* Background thread of session s: send_to_ollama(prompt) *)

\* lines 270-274: the live box is appended from the background thread
create_live_box(s) ==
    /\ pc[s] = "live"
    /\ messages_box' = Append(messages_box, live_box(s))
    /\ live_label' = [live_label EXCEPT ![s] = Placeholder]
    /\ pc' = [pc EXCEPT ![s] = "post"]
    /\ UNCHANGED <<file, idle, nsess, prompt, full_response, nread, ndel,
                   response, exc, events,
                   raised, nwin>>

\* line 319-320: idle_add of the lambda, still inside the except block
raise(s, e) ==
    /\ exc' = [exc EXCEPT ![s] = e]
    /\ idle' = idle_add(idle, Closure("error_exc", s))
    /\ pc' = [pc EXCEPT ![s] = "except"]

\* lines 276-281 and 316-317: requests.post returns a status of codes or
\* raises
post(s, codes) ==
    /\ pc[s] = "post"
    /\ \/ \E status \in codes :
            /\ response' = [response EXCEPT ![s] = status]
            /\ IF ok(status)
               THEN /\ pc' = [pc EXCEPT ![s] = "read"]
                    /\ idle' = idle
               ELSE /\ pc' = [pc EXCEPT ![s] = "done"]
                    /\ idle' = idle_add(idle, Closure("error_http", s))
            /\ exc' = exc
       \/ /\ raise(s, "ConnectionError")
          /\ response' = response
    /\ UNCHANGED <<messages_box, file, nsess, prompt, full_response,
                   live_label, nread, ndel, events,
                   raised, nwin>>

\* mutant of accumulate: the text of the chunk replaces the text so far
accumulate_replace(acc, text) == text

\* line 288: full_response += text
accumulate(acc, text) == acc \o text

\* lines 282-288 and 295-296: the next line of the stream
read_line(s, line) ==
    /\ pc[s] = "read"
    /\ nread < MaxLines
    /\ nread' = nread + 1
    /\ CASE line_outcome(line) = "append" ->
                /\ full_response' = [full_response EXCEPT ![s] = accumulate(@, line.resp)]
                /\ pc' = [pc EXCEPT ![s] = "notify"]
                /\ UNCHANGED <<idle, exc>>
         [] line_outcome(line) = "skip" ->
                UNCHANGED <<full_response, pc, idle, exc>>
         [] OTHER ->
                /\ raise(s, line_outcome(line))
                /\ UNCHANGED full_response
    /\ UNCHANGED <<messages_box, file, nsess, prompt, live_label, ndel,
                   response, events,
                   raised, nwin>>

\* line 293: GLib.idle_add(update)
notify(s) ==
    /\ pc[s] = "notify"
    /\ idle' = idle_add(idle, Closure("update", s))
    /\ pc' = [pc EXCEPT ![s] = "read"]
    /\ UNCHANGED <<messages_box, file, nsess, prompt, full_response,
                   live_label, nread, ndel, response, exc, events,
                   raised, nwin>>

\* line 282: iter_lines raises while the stream is read
stream_error(s) ==
    /\ pc[s] = "read"
    /\ raise(s, "ConnectionError")
    /\ UNCHANGED <<messages_box, file, nsess, prompt, full_response,
                   live_label, nread, ndel, response, events,
                   raised, nwin>>

\* line 314: the stream ended, GLib.idle_add(split_and_create_boxes)
end_of_stream(s) ==
    /\ pc[s] = "read"
    /\ idle' = idle_add(idle, Closure("split_and_create_boxes", s))
    /\ pc' = [pc EXCEPT ![s] = "done"]
    /\ UNCHANGED <<messages_box, file, nsess, prompt, full_response,
                   live_label, nread, ndel, response, exc, events,
                   raised, nwin>>

\* the end of the except block: the name e is unbound
leave_except(s) ==
    /\ pc[s] = "except"
    /\ pc' = [pc EXCEPT ![s] = "done"]
    /\ UNCHANGED <<messages_box, file, idle, nsess, prompt, full_response,
                   live_label, nread, ndel, response, exc, events,
                   raised, nwin>>

----------------------------------------------------------------------------
(* Presentation thread: the main loop runs the oldest idle closure *)

Runs(fn, s) == idle # <<>> /\ Head(idle) = Closure(fn, s)

Delivered(s, ev) == [events EXCEPT ![s] = Append(@, ev)]

\* the text update() shows: full_response as it is when the closure runs
update_text(s) == full_response[s]

\* lines 290-292
update(s) ==
    /\ Runs("update", s)
    /\ idle' = Tail(idle)
    /\ live_label' = [live_label EXCEPT ![s] = update_text(s)]
    /\ messages_box' = set_text(messages_box, s, update_text(s))
    /\ events' = Delivered(s, "chunk")
    /\ UNCHANGED <<file, nsess, pc, prompt, full_response, nread, ndel,
                   response, exc,
                   raised, nwin>>

\* lines 299-312: the log after split_and_create_boxes
split_boxes(mb, s, text) ==
    remove_live(mb, s) \o create_boxes(split(text), FALSE)

\* R: the threads whose live box is appended while the loop runs
split_and_create_boxes(s) ==
    /\ Runs("split_and_create_boxes", s)
    /\ idle' = Tail(idle)
    /\ \E R \in SUBSET racers :
          \E tail \in raced_appends(create_boxes(split(full_response[s]), FALSE), R) :
            /\ messages_box' =
                   IF R = {}
                   THEN split_boxes(messages_box, s, full_response[s])
                   ELSE remove_live(messages_box, s) \o tail
            /\ pc' = live_created(R)
            /\ live_label' = live_labelled(R)
    /\ file' = save_history(messages_box')
    /\ events' = Delivered(s, "done")
    /\ UNCHANGED <<nsess, prompt, full_response, nread, ndel, response, exc,
                   raised, nwin>>

\* line 317: lambda: self.add_message(f"Error: HTTP {...}", False)
error_http(s) ==
    /\ Runs("error_http", s)
    /\ idle' = Tail(idle)
    /\ messages_box' =
           add_message_box(messages_box, error_http_text(response[s]), FALSE)
    /\ file' =
           add_message_file(messages_box, file, error_http_text(response[s]), FALSE)
    /\ events' = Delivered(s, "error")
    /\ UNCHANGED <<nsess, pc, prompt, full_response, live_label, nread, ndel,
                   response, exc,
                   raised, nwin>>

\* line 320: lambda: self.add_message(f"Error: {str(e)}", False).  The lambda
\* reads e when it runs: once the thread has left the except block e is
\* unbound and the lambda raises NameError instead of adding a message.
error_exc(s) ==
    /\ Runs("error_exc", s)
    /\ idle' = Tail(idle)
    /\ IF pc[s] = "except"
       THEN /\ messages_box' =
                   add_message_box(messages_box, error_exc_text(exc[s]), FALSE)
            /\ file' =
                   add_message_file(messages_box, file, error_exc_text(exc[s]), FALSE)
            /\ events' = Delivered(s, "error")
       ELSE /\ events' = Delivered(s, "NameError")
            /\ UNCHANGED <<messages_box, file>>
    /\ UNCHANGED <<nsess, pc, prompt, full_response, live_label, nread, ndel,
                   response, exc,
                   raised, nwin>>

----------------------------------------------------------------------------

Next ==
    \/ \E t \in EntryTexts : on_send(t, MaxSessions)
    \/ \E i \in 1..Len(messages_box) : on_delete_clicked(i)
    \/ \E s \in Sessions : on_delete_clicked_detached(s)
    \/ \E s \in Sessions : create_live_box(s)
    \/ \E s \in Sessions : post(s, AnyStatusCodes)
    \/ \E s \in Sessions, line \in Lines : read_line(s, line)
    \/ \E s \in Sessions : notify(s)
    \/ \E s \in Sessions : stream_error(s)
    \/ \E s \in Sessions : end_of_stream(s)
    \/ \E s \in Sessions : leave_except(s)
    \/ \E s \in Sessions : update(s)
    \/ \E s \in Sessions : split_and_create_boxes(s)
    \/ \E s \in Sessions : error_http(s)
    \/ \E s \in Sessions : error_exc(s)

Spec == Init /\ [][Next]_vars

----------------------------------------------------------------------------
(* The same window with at most MaxTurns submits *)

NextTurn ==
    \/ \E t \in EntryTexts : on_send(t, MaxTurns)
    \/ \E i \in 1..Len(messages_box) : on_delete_clicked(i)
    \/ \E s \in Sessions : on_delete_clicked_detached(s)
    \/ \E s \in Sessions : create_live_box(s)
    \/ \E s \in Sessions : post(s, StatusCodes)
    \/ \E s \in Sessions, line \in Lines : read_line(s, line)
    \/ \E s \in Sessions : notify(s)
    \/ \E s \in Sessions : stream_error(s)
    \/ \E s \in Sessions : end_of_stream(s)
    \/ \E s \in Sessions : leave_except(s)
    \/ \E s \in Sessions : update(s)
    \/ \E s \in Sessions : split_and_create_boxes(s)
    \/ \E s \in Sessions : error_http(s)
    \/ \E s \in Sessions : error_exc(s)

SpecTurn == Init /\ [][NextTurn]_vars

----------------------------------------------------------------------------
(* The same window with two submits, whose sessions can overlap *)

NextPair ==
    \/ \E t \in EntryTexts : on_send(t, 2)
    \/ \E i \in 1..Len(messages_box) : on_delete_clicked(i)
    \/ \E s \in Sessions : on_delete_clicked_detached(s)
    \/ \E s \in Sessions : create_live_box(s)
    \/ \E s \in Sessions : post(s, StatusCodes)
    \/ \E s \in Sessions, line \in Lines : read_line(s, line)
    \/ \E s \in Sessions : notify(s)
    \/ \E s \in Sessions : stream_error(s)
    \/ \E s \in Sessions : end_of_stream(s)
    \/ \E s \in Sessions : leave_except(s)
    \/ \E s \in Sessions : update(s)
    \/ \E s \in Sessions : split_and_create_boxes(s)
    \/ \E s \in Sessions : error_http(s)
    \/ \E s \in Sessions : error_exc(s)

SpecPair == Init /\ [][NextPair]_vars

----------------------------------------------------------------------------
(* The storage between two turns.  A window holds a log of at most         *)
(* MaxBoxes boxes left by earlier turns and deletes, saved or never saved;  *)
(* no thread runs.  The user deletes boxes, submits while the storage       *)
(* refuses the write, and runs the program again.  The texts hold the       *)
(* characters that json.dump escapes.                                       *)

StorageTexts == {<<"\"", "\\", "n">>, <<"<", "\n", "&">>}

StorageEntryTexts == {<<" ">> \o t : t \in StorageTexts}

\* user messages, assistant messages and code blocks
StorageBoxes ==
    {MessageBox(t, u, FALSE) : t \in StorageTexts, u \in BOOLEAN}
    \cup {MessageBox(t, FALSE, TRUE) : t \in StorageTexts}

StorageLogs == UNION {[1..n -> StorageBoxes] : n \in 0..MaxBoxes}

InitStorage ==
    /\ messages_box \in StorageLogs
    /\ file \in {save_history(messages_box)}
                \cup (IF messages_box = <<>> THEN {NoFile} ELSE {})
    /\ idle = <<>>
    /\ nsess = 0
    /\ pc = [s \in Sessions |-> "new"]
    /\ prompt = [s \in Sessions |-> <<>>]
    /\ full_response = [s \in Sessions |-> <<>>]
    /\ live_label = [s \in Sessions |-> <<>>]
    /\ nread = 0
    /\ ndel = 0
    /\ response = [s \in Sessions |-> 0]
    /\ exc = [s \in Sessions |-> "none"]
    /\ events = [s \in Sessions |-> <<>>]
    /\ raised = "none"
    /\ nwin = 1

NextStorage ==
    \/ \E t \in StorageEntryTexts : on_send_write_fails(t)
    \/ \E i \in 1..Len(messages_box) : on_delete_clicked(i)
    \/ do_activate

SpecStorage == InitStorage /\ [][NextStorage]_vars

----------------------------------------------------------------------------
(* split_and_create_boxes on every finished response made of at most       *)
(* MaxTokens tokens (a letter, a blank, one grave accent or a whole fence): *)
(* the first turn of a window, its one chunk shown, the stream ended and    *)
(* split_and_create_boxes the next idle closure to run.                     *)

Tokens == {<<"a">>, <<"b">>, <<" ">>, <<Backtick>>, Fence}

RECURSIVE Concat(_)
Concat(toks) == IF toks = <<>> THEN <<>> ELSE Head(toks) \o Concat(Tail(toks))

Texts == {Concat(toks) : toks \in UNION {[1..n -> Tokens] : n \in 0..MaxTokens}}

UserText == <<"h">>

InitSplit ==
    /\ \E text \in Texts :
          /\ full_response = [s \in Sessions |-> IF s = 1 THEN text ELSE <<>>]
          /\ live_label = [s \in Sessions |-> IF s = 1 THEN text ELSE <<>>]
          /\ messages_box =
                 <<MessageBox(UserText, TRUE, FALSE), [live_box(1) EXCEPT !.text = text]>>
    /\ file = save_history(<<MessageBox(UserText, TRUE, FALSE)>>)
    /\ idle = <<Closure("split_and_create_boxes", 1)>>
    /\ nsess = 1
    /\ pc = [s \in Sessions |-> IF s = 1 THEN "done" ELSE "new"]
    /\ prompt = [s \in Sessions |-> IF s = 1 THEN UserText ELSE <<>>]
    /\ nread = 1
    /\ ndel = 0
    /\ response = [s \in Sessions |-> IF s = 1 THEN 200 ELSE 0]
    /\ exc = [s \in Sessions |-> "none"]
    /\ events = [s \in Sessions |-> IF s = 1 THEN <<"chunk">> ELSE <<>>]
    /\ raised = "none"
    /\ nwin = 1

NextSplit == \E s \in Sessions : split_and_create_boxes(s)

SpecSplit == InitSplit /\ [][NextSplit]_vars

----------------------------------------------------------------------------
(* Vocabulary of the properties *)

Range(seq) == {seq[i] : i \in DOMAIN seq}

Terminals == {"done", "error"}

TerminalCount(s) == Cardinality({i \in DOMAIN events[s] : events[s][i] \in Terminals})

\* the session was submitted and its terminal event has not run yet
Active(s) == pc[s] # "new" /\ Range(events[s]) \cap Terminals = {}

\* the thread has returned and none of its closures is left to run
Over(s) == pc[s] = "done" /\ \A i \in DOMAIN idle : idle[i].s # s

HasLive(mb, s) == \E i \in DOMAIN mb : mb[i].live = s

\* mb' without the live boxes that threads appended during the step
Settled(mb) == SelectSeq(mb, LAMBDA m : m.live = 0 \/ pc[m.live] # "live")

\* the step in which the presentation thread runs ev for session s
Delivers(s, ev) == events'[s] = Append(events[s], ev)

\* the boxes appended to the log of SpecSplit, which starts as <<user, live>>
SplitDone == "done" \in Range(events[1])

Segments == SubSeq(messages_box, 2, Len(messages_box))

----------------------------------------------------------------------------
(* C1 *)

\* C1: at most one session is active at a time: a submit that arrives while
\* an earlier session has not delivered its terminal event starts no second
\* session.
C1_AtMostOneActiveSession ==
    Cardinality({s \in Sessions : Active(s)}) <= 1

----------------------------------------------------------------------------
(* C2 *)

\* C2: every session delivers exactly one terminal event (done or error) to
\* the presentation thread, after its last chunk update and with no chunk
\* update after it, also when an exception ended the session.
C2_ExactlyOneTerminalEventLast ==
    \A s \in Sessions :
        /\ TerminalCount(s) <= 1
        /\ \A i \in DOMAIN events[s] :
              events[s][i] \in Terminals => i = Len(events[s])
        /\ Over(s) => TerminalCount(s) = 1

----------------------------------------------------------------------------
(* C3 *)

\* C3: when done runs after chunk updates of its session, the text it splits
\* is the text the last chunk update showed: the log it leaves is the split
\* of the label of the live box, and that label is the accumulated text.
C3_DoneSplitsLastShownText ==
    [][\A s \in Sessions :
          (Delivers(s, "done") /\ "chunk" \in Range(events[s])) =>
              /\ live_label[s] = full_response[s]
              /\ Settled(messages_box') = split_boxes(messages_box, s, live_label[s])]_vars

\* two chunk updates shown, then done, for a response of both chunk texts
C3_Witness ==
    \E s \in Sessions :
        /\ events[s] = <<"chunk", "chunk", "done">>
        /\ live_label[s] = <<" ", "a">> \o Fence
        /\ live_label[s] = full_response[s]

----------------------------------------------------------------------------
(* C4 *)

\* C4: a line that does not parse as an object with a text 'response' is
\* skipped and never ends the session: no session fails with the TypeError
\* such a line raises.
C4_MalformedLineNeverEndsSession ==
    \A s \in Sessions : exc[s] # "TypeError"

----------------------------------------------------------------------------
(* C5 *)

\* the boxes the claim expects: the role of a piece is the parity of its
\* position idx in the split, counted with the blank pieces
RECURSIVE boxes_by_position(_, _)
boxes_by_position(parts, idx) ==
    IF parts = <<>> THEN <<>>
    ELSE IF strip(Head(parts)) # <<>>
         THEN <<MessageBox(strip(Head(parts)), FALSE, idx % 2 = 1)>>
              \o boxes_by_position(Tail(parts), idx + 1)
         ELSE boxes_by_position(Tail(parts), idx + 1)

\* C5: the role of every segment is the parity of its piece's position in
\* the split on the fence, counted before blank pieces are dropped; a
\* response that starts with a fence yields a code segment first.
C5_RoleIsParityOfPiecePosition ==
    SplitDone => Segments = boxes_by_position(split(full_response[1]), 0)

----------------------------------------------------------------------------
(* C6 *)

\* C6: the segments produced from a finished response alternate their role
\* strictly, starting with "not code", whatever the pieces hold; the
\* response a, fence, b, fence, a gives (a, prose), (b, code), (a, prose).
C6_RolesAlternateFromProse ==
    SplitDone =>
        /\ \A i \in DOMAIN Segments : Segments[i].is_code = (i % 2 = 0)
        /\ full_response[1] = <<"a">> \o Fence \o <<"b">> \o Fence \o <<"a">> =>
              Segments = <<MessageBox(<<"a">>, FALSE, FALSE),
                           MessageBox(<<"b">>, FALSE, TRUE),
                           MessageBox(<<"a">>, FALSE, FALSE)>>

\* a response that opens with a fence and has a second piece after it
C6_Witness ==
    /\ SplitDone
    /\ full_response[1] = Fence \o <<"a">> \o Fence \o <<"b">>
    /\ Len(Segments) = 2

----------------------------------------------------------------------------
(* C7 *)

\* the pieces of the split that are not blank, stripped, in their order
NonBlankPieces(text) ==
    SelectSeq([i \in DOMAIN split(text) |-> strip(split(text)[i])],
              LAMBDA piece : piece # <<>>)

\* C7: every segment is non-empty and has no leading or trailing whitespace,
\* the segments are the non-blank pieces of the response in their order, and
\* an empty or blank response produces no message.
C7_SegmentsTrimmedNonEmptyInOrder ==
    SplitDone =>
        /\ \A i \in DOMAIN Segments :
              /\ Segments[i].text # <<>>
              /\ Head(Segments[i].text) \notin Whitespace
              /\ Segments[i].text[Len(Segments[i].text)] \notin Whitespace
        /\ Len(Segments) = Len(NonBlankPieces(full_response[1]))
        /\ \A i \in DOMAIN Segments :
              Segments[i].text = NonBlankPieces(full_response[1])[i]
        /\ (\A i \in DOMAIN full_response[1] : full_response[1][i] \in Whitespace)
              => Segments = <<>>

\* pieces padded with blanks on both sides, two segments kept in order
C7_Witness ==
    /\ SplitDone
    /\ full_response[1] = <<" ", "a", " ">> \o Fence \o <<"b">>
    /\ Len(Segments) = 2
    /\ Segments[1].text = <<"a">>
    /\ Segments[2].text = <<"b">>

----------------------------------------------------------------------------
(* C8 *)

\* C8: after on_send has returned and before the request of that submit has
\* been answered, the last but one message of the log is the user message
\* and the last one is the live placeholder of the new session.
C8_UserMessageThenPlaceholder ==
    \A s \in Sessions :
        pc[s] \in {"live", "post"} =>
            /\ Len(messages_box) >= 2
            /\ messages_box[Len(messages_box) - 1] = MessageBox(prompt[s], TRUE, FALSE)
            /\ messages_box[Len(messages_box)].live = s

----------------------------------------------------------------------------
(* C9 *)

\* C9: the step that ends a session in error removes the live placeholder
\* of the session, appends exactly one assistant message, and saves the
\* log, so that the file holds the error message and no placeholder.
C9_ErrorReplacesPlaceholderAndSaves ==
    [][\A s \in Sessions :
          (Delivers(s, "error") \/ Delivers(s, "NameError")) =>
              /\ ~HasLive(messages_box', s)
              /\ Len(messages_box') = Len(remove_live(messages_box, s)) + 1
              /\ ~messages_box'[Len(messages_box')].is_user
              /\ file' = save_history(messages_box')]_vars

----------------------------------------------------------------------------
(* C10 *)

\* the log without the boxes of session s
WithoutLive(mb, s) == SelectSeq(mb, LAMBDA m : m.live # s)

\* C10: the step that completes a session removes its live placeholder,
\* appends one assistant message per segment of the split, in order, and
\* then saves the log; with no segment the log is the log without the
\* placeholder.
C10_DoneReplacesPlaceholderBySegments ==
    [][\A s \in Sessions :
          Delivers(s, "done") =>
              LET before == WithoutLive(messages_box, s)
                  segs == create_boxes(split(full_response[s]), FALSE)
              IN  /\ ~HasLive(messages_box', s)
                  /\ Settled(messages_box') = before \o segs
                  /\ \A i \in DOMAIN segs : ~segs[i].is_user
                  /\ file' = save_history(messages_box')
                  /\ segs = <<>> => Settled(messages_box') = before]_vars

\* a completed session that left two segments after the user message, saved
C10_Witness ==
    /\ events[1] = <<"chunk", "chunk", "done">>
    /\ messages_box = <<MessageBox(<<"h">>, TRUE, FALSE),
                        MessageBox(<<"a">>, FALSE, FALSE),
                        MessageBox(<<"a">>, FALSE, TRUE)>>
    /\ file = save_history(messages_box)

----------------------------------------------------------------------------
\* the step in which the program is run again and the new window loads
Activates == nwin' = nwin + 1

\* C11: save_history followed at once by load_history into the empty log of
\* a new window gives a log of the same length with the same text, is_user
\* and is_code at every index.
C11_SaveThenLoadReproducesLog ==
    [][(file = save_history(messages_box) /\ Activates) =>
          /\ raised' = "none"
          /\ Len(messages_box') = Len(messages_box)
          /\ \A i \in DOMAIN messages_box :
                /\ messages_box'[i].text = messages_box[i].text
                /\ messages_box'[i].is_user = messages_box[i].is_user
                /\ messages_box'[i].is_code = messages_box[i].is_code]_vars

\* a second window that loaded a user message with a quote and a backslash
\* and a code block with a line feed and the characters markup escapes
C11_Witness ==
    /\ nwin = 2
    /\ raised = "none"
    /\ file = save_history(messages_box)
    /\ messages_box = <<MessageBox(<<"\"", "\\", "n">>, TRUE, FALSE),
                        MessageBox(<<"<", "\n", "&">>, FALSE, TRUE)>>

----------------------------------------------------------------------------
\* a click on the delete button of a box that is not in the log
DetachedDelete == ndel' = ndel + 1 /\ Len(messages_box') = Len(messages_box)

----------------------------------------------------------------------------
\* C13: load_history without a file raises nothing and leaves the log of the
\* new window empty; with a file that does not parse it raises to its
\* caller and the log is as before the load, empty, with no message of the
\* file restored.
C13_LoadWithoutFileOrUnparsable ==
    [][Activates =>
          /\ ~file.exists => raised' = "none" /\ messages_box' = <<>>
          /\ (file.exists /\ file.truncated) =>
                raised' = "JSONDecodeError" /\ messages_box' = <<>>]_vars

\* a second window whose load failed on a file cut short after one object
C13_Witness ==
    /\ nwin = 2
    /\ raised = "JSONDecodeError"
    /\ file.truncated
    /\ Len(file.history) = 1
    /\ messages_box = <<>>

----------------------------------------------------------------------------
\* a step of the presentation thread: the main loop runs an idle closure, or
\* a signal handler (on_send, on_delete_clicked) runs
PresentationStep ==
    \/ idle # <<>> /\ idle' = Tail(idle)
    \/ nsess' = nsess + 1
    \/ ndel' = ndel + 1

\* C14: the log and the text of the live box change only in steps of the
\* presentation thread; the thread of a session changes neither, not even
\* to create and append its live box.
C14_WorkerNeverMutatesLog ==
    [][(messages_box' # messages_box \/ live_label' # live_label) =>
          PresentationStep]_vars

----------------------------------------------------------------------------
IsPrefix(p, t) == Len(p) <= Len(t) /\ SubSeq(t, 1, Len(p)) = p

\* C15: every chunk update of a session after its first sets a text that
\* starts with the text the update before it set, so the text of the live
\* box never gets shorter and never goes back to an older text.
C15_ChunkUpdatesOnlyExtendText ==
    [][\A s \in Sessions :
          (Delivers(s, "chunk") /\ "chunk" \in Range(events[s])) =>
              /\ IsPrefix(live_label[s], live_label'[s])
              /\ Len(live_label'[s]) >= Len(live_label[s])]_vars

\* two chunk updates ran and the second chunk is shown after the first
C15_Witness ==
    /\ events[1] = <<"chunk", "chunk">>
    /\ live_label[1] = <<"a">> \o Fence \o <<" ">>

----------------------------------------------------------------------------
\* the user messages and the finished assistant and code messages of a log
Finished(mb) == SelectSeq(mb, LAMBDA m : m.live = 0)

\* C16: every save_history writes only user messages and finished
\* assistant and code messages, never a live box with its placeholder or
\* its partly streamed text.
C16_FileNeverHoldsLiveBox ==
    [][file' # file => file' = save_history(Finished(messages_box'))]_vars

----------------------------------------------------------------------------
\* C17: when the save after the append of the user message fails in
\* on_send, the user message stays in the log and the session of that
\* submit is still started.
C17_SaveFailureStillStartsSession ==
    [][raised' = "OSError" =>
          /\ Len(messages_box') = Len(messages_box) + 1
          /\ messages_box'[Len(messages_box')].is_user
          /\ nsess' = nsess + 1
          /\ pc'[nsess'] = "live"]_vars

----------------------------------------------------------------------------
\* a status outside 200..299 was answered to session s
NonSuccess(s) == response[s] # 0 /\ ~(200 <= response[s] /\ response[s] < 300)

\* C18: a session answered with a non-success status consumes no chunk (no
\* chunk update, the accumulated text stays empty), delivers done never and
\* ends with the one error event.
C18_NonSuccessStatusEndsInOneError ==
    \A s \in Sessions :
        NonSuccess(s) =>
            /\ full_response[s] = <<>>
            /\ Range(events[s]) \subseteq {"error"}
            /\ Len(events[s]) <= 1
            /\ Over(s) => events[s] = <<"error">>

----------------------------------------------------------------------------
\* C19: a chunk update of one session changes the text of its own live box
\* only, and the completion of a session removes its own live box only;
\* the live box, the accumulated text and the messages of another session
\* stay as they are.
C19_SessionsIsolated ==
    [][\A s \in Sessions :
          /\ Delivers(s, "chunk") =>
                /\ Len(messages_box') = Len(messages_box)
                /\ \A i \in DOMAIN messages_box :
                      messages_box[i].live # s => messages_box'[i] = messages_box[i]
                /\ \A t \in Sessions \ {s} :
                      /\ full_response'[t] = full_response[t]
                      /\ live_label'[t] = live_label[t]
          /\ Delivers(s, "done") =>
                /\ IsPrefix(WithoutLive(messages_box, s), Settled(messages_box'))
                /\ \A t \in Sessions \ {s} :
                      /\ full_response'[t] = full_response[t]
                      /\ pc[t] # "live" => live_label'[t] = live_label[t]
                      /\ HasLive(messages_box, t) => HasLive(messages_box', t)]_vars

\* the first session showed a chunk and completed while the live box of the
\* second was in the log, and that box is still there with its placeholder
C19_Witness ==
    /\ events[1] = <<"chunk", "done">>
    /\ events[2] = <<>>
    /\ ~HasLive(messages_box, 1)
    /\ \E i \in DOMAIN messages_box :
          /\ messages_box[i].live = 2
          /\ messages_box[i].text = Placeholder
          /\ i < Len(messages_box)

----------------------------------------------------------------------------
\* C20: the boxes of the segments of a completed reply are appended in one
\* piece: they lie next to each other in the log, in the order of the
\* fences and after the messages that were there, with no box of another
\* turn between them.
C20_SegmentsContiguous ==
    [][\A s \in Sessions :
          Delivers(s, "done") =>
              LET segs == create_boxes(split(full_response[s]), FALSE)
                  first == Len(WithoutLive(messages_box, s)) + 1
              IN  \E k \in first..(Len(messages_box') - Len(segs) + 1) :
                     SubSeq(messages_box', k, k + Len(segs) - 1) = segs]_vars

====
